---- MODULE Spec2Model ----
(***************************************************************************)
(* A model of the nwtrees lexer (src/src/nwtrees/Lexer.cpp): the cursor    *)
(* and seek, the four token recognisers, the match resolution of the main  *)
(* loop, the unknown token error path and the name buffer pass.            *)
(* Characters are their ASCII codes; offsets are 0-based as in the source. *)
(***************************************************************************)
EXTENDS Integers, Sequences, FiniteSets, TLC

(* Character codes. *)
c_nul == 0
c_tab == 9
c_nl == 10
c_vt == 11
c_ff == 12
c_cr == 13
c_space == 32
c_excl == 33
c_quote == 34
c_hash == 35
c_percent == 37
c_amp == 38
c_lparen == 40
c_rparen == 41
c_star == 42
c_plus == 43
c_comma == 44
c_minus == 45
c_dot == 46
c_slash == 47
c_0 == 48
c_1 == 49
c_2 == 50
c_3 == 51
c_4 == 52
c_5 == 53
c_6 == 54
c_7 == 55
c_8 == 56
c_9 == 57
c_colon == 58
c_semi == 59
c_less == 60
c_equal == 61
c_greater == 62
c_question == 63
c_at == 64
c_upA == 65
c_upB == 66
c_upC == 67
c_upD == 68
c_upE == 69
c_upF == 70
c_upG == 71
c_upH == 72
c_upI == 73
c_upJ == 74
c_upK == 75
c_upL == 76
c_upM == 77
c_upN == 78
c_upO == 79
c_upP == 80
c_upQ == 81
c_upR == 82
c_upS == 83
c_upT == 84
c_upU == 85
c_upV == 86
c_upW == 87
c_upX == 88
c_upY == 89
c_upZ == 90
c_lbracket == 91
c_backslash == 92
c_rbracket == 93
c_caret == 94
c_underscore == 95
c_backtick == 96
c_a == 97
c_b == 98
c_c == 99
c_d == 100
c_e == 101
c_f == 102
c_g == 103
c_h == 104
c_i == 105
c_j == 106
c_k == 107
c_l == 108
c_m == 109
c_n == 110
c_o == 111
c_p == 112
c_q == 113
c_r == 114
c_s == 115
c_t == 116
c_u == 117
c_v == 118
c_w == 119
c_x == 120
c_y == 121
c_z == 122
c_lbrace == 123
c_pipe == 124
c_rbrace == 125
c_tilde == 126

(* enum class Keyword and enum class Punctuator: the enumerators' values.  *)
Keyword ==
    [ If |-> 0,
      Else |-> 1,
      For |-> 2,
      While |-> 3,
      Do |-> 4,
      Switch |-> 5,
      Break |-> 6,
      Return |-> 7,
      Case |-> 8,
      Const |-> 9,
      Void |-> 10,
      Int |-> 11,
      Float |-> 12,
      String |-> 13,
      Struct |-> 14,
      Object |-> 15,
      Location |-> 16,
      Vector |-> 17,
      ItemProperty |-> 18,
      Effect |-> 19,
      Talent |-> 20,
      Action |-> 21,
      Event |-> 22,
      ObjectInvalid |-> 23,
      ObjectSelf |-> 24,
      Default |-> 25 ]

Punctuator ==
    [ LeftSquareBracket |-> 0,
      LeftCurlyBracket |-> 1,
      LeftParen |-> 2,
      RightSquareBracket |-> 3,
      RightCurlyBracket |-> 4,
      RightParen |-> 5,
      Plus |-> 6,
      PlusEquals |-> 7,
      PlusPlus |-> 8,
      Minus |-> 9,
      MinusEquals |-> 10,
      MinusMinus |-> 11,
      Amp |-> 12,
      AmpEquals |-> 13,
      AmpAmp |-> 14,
      Pipe |-> 15,
      PipeEquals |-> 16,
      PipePipe |-> 17,
      Equal |-> 18,
      EqualEqual |-> 19,
      Exclamation |-> 20,
      ExclamationEquals |-> 21,
      Caret |-> 22,
      CaretEquals |-> 23,
      Slash |-> 24,
      SlashEquals |-> 25,
      Asterisk |-> 26,
      AsteriskEquals |-> 27,
      Less |-> 28,
      LessEquals |-> 29,
      LessLess |-> 30,
      LessLessEquals |-> 31,
      Greater |-> 32,
      GreaterEquals |-> 33,
      GreaterGreater |-> 34,
      GreaterGreaterEquals |-> 35,
      Modulo |-> 36,
      ModuloEquals |-> 37,
      Colon |-> 38,
      ColonColon |-> 39,
      Semicolon |-> 40,
      Dot |-> 41,
      DotDotDot |-> 42,
      Comma |-> 43,
      Question |-> 44,
      Tilde |-> 45 ]

(* The keywords and punctuators tables: (spelling, enumerator) pairs.      *)
keywords ==
    << [first |-> <<c_i, c_f>>, second |-> "If"],
       [first |-> <<c_e, c_l, c_s, c_e>>, second |-> "Else"],
       [first |-> <<c_f, c_o, c_r>>, second |-> "For"],
       [first |-> <<c_w, c_h, c_i, c_l, c_e>>, second |-> "While"],
       [first |-> <<c_d, c_o>>, second |-> "Do"],
       [first |-> <<c_s, c_w, c_i, c_t, c_c, c_h>>, second |-> "Switch"],
       [first |-> <<c_b, c_r, c_e, c_a, c_k>>, second |-> "Break"],
       [first |-> <<c_r, c_e, c_t, c_u, c_r, c_n>>, second |-> "Return"],
       [first |-> <<c_c, c_a, c_s, c_e>>, second |-> "Case"],
       [first |-> <<c_c, c_o, c_n, c_s, c_t>>, second |-> "Const"],
       [first |-> <<c_v, c_o, c_i, c_d>>, second |-> "Void"],
       [first |-> <<c_i, c_n, c_t>>, second |-> "Int"],
       [first |-> <<c_f, c_l, c_o, c_a, c_t>>, second |-> "Float"],
       [first |-> <<c_s, c_t, c_r, c_i, c_n, c_g>>, second |-> "String"],
       [first |-> <<c_s, c_t, c_r, c_u, c_c, c_t>>, second |-> "Struct"],
       [first |-> <<c_o, c_b, c_j, c_e, c_c, c_t>>, second |-> "Object"],
       [first |-> <<c_l, c_o, c_c, c_a, c_t, c_i, c_o, c_n>>, second |-> "Location"],
       [first |-> <<c_v, c_e, c_c, c_t, c_o, c_r>>, second |-> "Vector"],
       [first |-> <<c_i, c_t, c_e, c_m, c_p, c_r, c_o, c_p, c_e, c_r, c_t, c_y>>, second |-> "ItemProperty"],
       [first |-> <<c_e, c_f, c_f, c_e, c_c, c_t>>, second |-> "Effect"],
       [first |-> <<c_t, c_a, c_l, c_e, c_n, c_t>>, second |-> "Talent"],
       [first |-> <<c_a, c_c, c_t, c_i, c_o, c_n>>, second |-> "Action"],
       [first |-> <<c_e, c_v, c_e, c_n, c_t>>, second |-> "Event"],
       [first |-> <<c_upO, c_upB, c_upJ, c_upE, c_upC, c_upT, c_underscore, c_upI, c_upN, c_upV, c_upA, c_upL, c_upI, c_upD>>, second |-> "ObjectInvalid"],
       [first |-> <<c_upO, c_upB, c_upJ, c_upE, c_upC, c_upT, c_underscore, c_upS, c_upE, c_upL, c_upF>>, second |-> "ObjectSelf"],
       [first |-> <<c_d, c_e, c_f, c_a, c_u, c_l, c_t>>, second |-> "Default"] >>

punctuators ==
    << [first |-> <<c_lbracket>>, second |-> "LeftSquareBracket"],
       [first |-> <<c_lbrace>>, second |-> "LeftCurlyBracket"],
       [first |-> <<c_lparen>>, second |-> "LeftParen"],
       [first |-> <<c_rbracket>>, second |-> "RightSquareBracket"],
       [first |-> <<c_rbrace>>, second |-> "RightCurlyBracket"],
       [first |-> <<c_rparen>>, second |-> "RightParen"],
       [first |-> <<c_plus>>, second |-> "Plus"],
       [first |-> <<c_plus, c_equal>>, second |-> "PlusEquals"],
       [first |-> <<c_plus, c_plus>>, second |-> "PlusPlus"],
       [first |-> <<c_minus>>, second |-> "Minus"],
       [first |-> <<c_minus, c_equal>>, second |-> "MinusEquals"],
       [first |-> <<c_minus, c_minus>>, second |-> "MinusMinus"],
       [first |-> <<c_amp>>, second |-> "Amp"],
       [first |-> <<c_amp, c_equal>>, second |-> "AmpEquals"],
       [first |-> <<c_amp, c_amp>>, second |-> "AmpAmp"],
       [first |-> <<c_pipe>>, second |-> "Pipe"],
       [first |-> <<c_pipe, c_equal>>, second |-> "PipeEquals"],
       [first |-> <<c_pipe, c_pipe>>, second |-> "PipePipe"],
       [first |-> <<c_equal>>, second |-> "Equal"],
       [first |-> <<c_equal, c_equal>>, second |-> "EqualEqual"],
       [first |-> <<c_excl>>, second |-> "Exclamation"],
       [first |-> <<c_excl, c_equal>>, second |-> "ExclamationEquals"],
       [first |-> <<c_caret>>, second |-> "Caret"],
       [first |-> <<c_caret, c_equal>>, second |-> "CaretEquals"],
       [first |-> <<c_slash>>, second |-> "Slash"],
       [first |-> <<c_slash, c_equal>>, second |-> "SlashEquals"],
       [first |-> <<c_star>>, second |-> "Asterisk"],
       [first |-> <<c_star, c_equal>>, second |-> "AsteriskEquals"],
       [first |-> <<c_less>>, second |-> "Less"],
       [first |-> <<c_less, c_equal>>, second |-> "LessEquals"],
       [first |-> <<c_less, c_less>>, second |-> "LessLess"],
       [first |-> <<c_less, c_less, c_equal>>, second |-> "LessLessEquals"],
       [first |-> <<c_greater>>, second |-> "Greater"],
       [first |-> <<c_greater, c_equal>>, second |-> "GreaterEquals"],
       [first |-> <<c_greater, c_greater>>, second |-> "GreaterGreater"],
       [first |-> <<c_greater, c_greater, c_equal>>, second |-> "GreaterGreaterEquals"],
       [first |-> <<c_percent>>, second |-> "Modulo"],
       [first |-> <<c_percent, c_equal>>, second |-> "ModuloEquals"],
       [first |-> <<c_colon>>, second |-> "Colon"],
       [first |-> <<c_colon, c_colon>>, second |-> "ColonColon"],
       [first |-> <<c_semi>>, second |-> "Semicolon"],
       [first |-> <<c_dot>>, second |-> "Dot"],
       [first |-> <<c_dot, c_dot, c_dot>>, second |-> "DotDotDot"],
       [first |-> <<c_comma>>, second |-> "Comma"],
       [first |-> <<c_question>>, second |-> "Question"],
       [first |-> <<c_tilde>>, second |-> "Tilde"] >>

(* The sources the unit tests of tests/Lexer.cpp lex.                      *)
T_Empty ==
    << >>
T_Preprocessor_Skip ==
    << c_hash, c_i, c_n, c_c, c_l, c_u, c_d, c_e, c_space, c_less, c_b, c_l, c_a, c_h, c_greater >>
T_Comment_Skip ==
    << c_slash, c_slash, c_space, c_c, c_o, c_m, c_m, c_e, c_n, c_t, c_space, c_1, c_nl, c_slash,
       c_star, c_space, c_c, c_o, c_m, c_m, c_e, c_n, c_t, c_space, c_2, c_space, c_slash, c_slash,
       c_nl, c_star, c_slash, c_slash, c_slash, c_space, c_c, c_o, c_m, c_m, c_e, c_n, c_t, c_space,
       c_3 >>
T_Whitespace_Skip ==
    << c_space, c_space, c_space, c_space, c_cr, c_nl, c_tab, c_tab, c_space, c_space, c_nl, c_tab,
       c_space, c_space >>
T_Keywords ==
    << c_i, c_f, c_space, c_e, c_l, c_s, c_e, c_space, c_f, c_o, c_r, c_space, c_w, c_h, c_i,
       c_l, c_e, c_space, c_d, c_o, c_space, c_s, c_w, c_i, c_t, c_c, c_h, c_space, c_b, c_r,
       c_e, c_a, c_k, c_space, c_r, c_e, c_t, c_u, c_r, c_n, c_space, c_c, c_a, c_s, c_e, c_space,
       c_c, c_o, c_n, c_s, c_t, c_space, c_v, c_o, c_i, c_d, c_space, c_i, c_n, c_t, c_space,
       c_f, c_l, c_o, c_a, c_t, c_space, c_s, c_t, c_r, c_i, c_n, c_g, c_space, c_s, c_t, c_r,
       c_u, c_c, c_t, c_space, c_o, c_b, c_j, c_e, c_c, c_t, c_space, c_l, c_o, c_c, c_a, c_t,
       c_i, c_o, c_n, c_space, c_v, c_e, c_c, c_t, c_o, c_r, c_space, c_i, c_t, c_e, c_m, c_p,
       c_r, c_o, c_p, c_e, c_r, c_t, c_y, c_space, c_e, c_f, c_f, c_e, c_c, c_t, c_space, c_t,
       c_a, c_l, c_e, c_n, c_t, c_space, c_a, c_c, c_t, c_i, c_o, c_n, c_space, c_e, c_v, c_e,
       c_n, c_t, c_space, c_upO, c_upB, c_upJ, c_upE, c_upC, c_upT, c_underscore, c_upI, c_upN,
       c_upV, c_upA, c_upL, c_upI, c_upD, c_space, c_upO, c_upB, c_upJ, c_upE, c_upC, c_upT, c_underscore,
       c_upS, c_upE, c_upL, c_upF, c_space, c_d, c_e, c_f, c_a, c_u, c_l, c_t, c_space >>
T_Identifiers ==
    << c_i, c_n, c_t, c_e, c_g, c_e, c_r, c_space, c_f, c_l, c_o, c_a, c_t, c_i, c_n, c_g, c_space,
       c_s, c_t, c_r, c_i, c_n, c_g, c_l, c_e, c_s, c_s, c_space, c_t, c_e, c_s, c_t, c_space,
       c_o, c_b, c_j, c_space >>
T_Identifiers_Invalid ==
    << c_0, c_t, c_e, c_s, c_t >>
T_Literals_String ==
    << c_quote, c_t, c_e, c_s, c_t, c_space, c_backslash, c_quote, c_space, c_quote, c_semi, c_quote,
       c_t, c_e, c_s, c_t, c_n, c_e, c_w, c_l, c_i, c_n, c_e, c_backslash, c_n, c_quote, c_semi >>
T_Literals_String_Concat ==
    << c_quote, c_t, c_e, c_s, c_t, c_quote, c_space, c_quote, c_t, c_e, c_s, c_t, c_2, c_quote,
       c_space, c_quote, c_t, c_e, c_s, c_t, c_3, c_quote, c_space >>
T_Literals_Int ==
    << c_1, c_space, c_1, c_0, c_0, c_0, c_0, c_space, c_0, c_1, c_space, c_minus, c_1, c_space,
       c_minus, c_1, c_0, c_0, c_0, c_0, c_space, c_0, c_9, c_9, c_9, c_space, c_0, c_x, c_upF,
       c_upF, c_space, c_plus, c_1, c_0, c_0, c_0, c_space >>
T_Literals_Float ==
    << c_1, c_dot, c_0, c_space, c_1, c_dot, c_space, c_0, c_dot, c_1, c_space, c_dot, c_1, c_space,
       c_minus, c_dot, c_1, c_space, c_minus, c_dot, c_1, c_e, c_5, c_space, c_plus, c_dot, c_1,
       c_f, c_space, c_1, c_0, c_0, c_0, c_0, c_f, c_space, c_9, c_e, c_5, c_space >>
T_Punctuators ==
    << c_lbracket, c_space, c_lbrace, c_space, c_lparen, c_space, c_rbracket, c_space, c_rbrace,
       c_space, c_rparen, c_space, c_plus, c_space, c_plus, c_equal, c_space, c_plus, c_plus,
       c_space, c_minus, c_space, c_minus, c_equal, c_space, c_minus, c_minus, c_space, c_amp,
       c_space, c_amp, c_equal, c_space, c_amp, c_amp, c_space, c_pipe, c_space, c_pipe, c_equal,
       c_space, c_pipe, c_pipe, c_space, c_equal, c_space, c_equal, c_equal, c_space, c_excl,
       c_space, c_excl, c_equal, c_space, c_caret, c_space, c_caret, c_equal, c_space, c_slash,
       c_space, c_slash, c_equal, c_space, c_star, c_space, c_star, c_equal, c_space, c_less,
       c_space, c_less, c_equal, c_space, c_less, c_less, c_space, c_less, c_less, c_equal, c_space,
       c_greater, c_space, c_greater, c_equal, c_space, c_greater, c_greater, c_space, c_greater,
       c_greater, c_equal, c_space, c_percent, c_space, c_percent, c_equal, c_space, c_colon,
       c_space, c_colon, c_colon, c_space, c_semi, c_space, c_dot, c_space, c_dot, c_dot, c_dot,
       c_space, c_comma, c_space, c_question, c_space, c_tilde, c_space >>
T_Invalid_Backtick ==
    << c_backtick >>
T_Invalid_Backslash ==
    << c_backslash >>
T_Invalid_0c ==
    << c_0, c_c >>
T_Invalid_AtAt ==
    << c_at, c_at >>
T_Comprehensive ==
    << c_nl, c_space, c_space, c_space, c_space, c_space, c_space, c_space, c_space, c_space,
       c_space, c_space, c_space, c_i, c_n, c_t, c_space, c_a, c_d, c_d, c_lparen, c_c, c_o, c_n,
       c_s, c_t, c_space, c_i, c_n, c_t, c_space, c_a, c_comma, c_space, c_c, c_o, c_n, c_s, c_t,
       c_space, c_i, c_n, c_t, c_space, c_b, c_rparen, c_nl, c_space, c_space, c_space, c_space,
       c_space, c_space, c_space, c_space, c_space, c_space, c_space, c_space, c_lbrace, c_nl,
       c_space, c_space, c_space, c_space, c_space, c_space, c_space, c_space, c_space, c_space,
       c_space, c_space, c_space, c_space, c_space, c_space, c_r, c_e, c_t, c_u, c_r, c_n, c_space,
       c_a, c_space, c_plus, c_space, c_b, c_semi, c_nl, c_space, c_space, c_space, c_space, c_space,
       c_space, c_space, c_space, c_space, c_space, c_space, c_space, c_rbrace, c_nl, c_nl, c_space,
       c_space, c_space, c_space, c_space, c_space, c_space, c_space, c_space, c_space, c_space,
       c_space, c_v, c_o, c_i, c_d, c_space, c_m, c_a, c_i, c_n, c_lparen, c_rparen, c_nl, c_space,
       c_space, c_space, c_space, c_space, c_space, c_space, c_space, c_space, c_space, c_space,
       c_space, c_lbrace, c_nl, c_space, c_space, c_space, c_space, c_space, c_space, c_space,
       c_space, c_space, c_space, c_space, c_space, c_space, c_space, c_space, c_space, c_c, c_o,
       c_n, c_s, c_t, c_space, c_i, c_n, c_t, c_space, c_v, c_a, c_l, c_u, c_e, c_space, c_equal,
       c_space, c_a, c_d, c_d, c_lparen, c_5, c_comma, c_space, c_7, c_rparen, c_semi, c_nl, c_space,
       c_space, c_space, c_space, c_space, c_space, c_space, c_space, c_space, c_space, c_space,
       c_space, c_space, c_space, c_space, c_space, c_c, c_o, c_n, c_s, c_t, c_space, c_s, c_t,
       c_r, c_i, c_n, c_g, c_space, c_s, c_t, c_r, c_space, c_equal, c_space, c_quote, c_upH,
       c_e, c_l, c_l, c_o, c_space, c_w, c_o, c_r, c_l, c_d, c_excl, c_backslash, c_n, c_quote,
       c_space, c_quote, c_upA, c_n, c_d, c_space, c_m, c_e, c_comma, c_space, c_t, c_o, c_o,
       c_excl, c_quote, c_semi, c_nl, c_nl, c_space, c_space, c_space, c_space, c_space, c_space,
       c_space, c_space, c_space, c_space, c_space, c_space, c_space, c_space, c_space, c_space,
       c_i, c_n, c_t, c_space, c_v, c_a, c_l, c_u, c_e, c_2, c_space, c_equal, c_space, c_v, c_a,
       c_l, c_u, c_e, c_semi, c_nl, c_space, c_space, c_space, c_space, c_space, c_space, c_space,
       c_space, c_space, c_space, c_space, c_space, c_space, c_space, c_space, c_space, c_v, c_a,
       c_l, c_u, c_e, c_2, c_space, c_greater, c_greater, c_equal, c_space, c_0, c_x, c_5, c_upF,
       c_semi, c_nl, c_space, c_space, c_space, c_space, c_space, c_space, c_space, c_space, c_space,
       c_space, c_space, c_space, c_space, c_space, c_space, c_space, c_v, c_a, c_l, c_u, c_e,
       c_2, c_space, c_slash, c_equal, c_space, c_dot, c_1, c_e, c_7, c_semi, c_nl, c_space, c_space,
       c_space, c_space, c_space, c_space, c_space, c_space, c_space, c_space, c_space, c_space,
       c_rbrace, c_nl, c_space, c_space, c_space, c_space, c_space, c_space, c_space, c_space >>

Corpus ==
    { T_Empty,
      T_Preprocessor_Skip,
      T_Comment_Skip,
      T_Whitespace_Skip,
      T_Keywords,
      T_Identifiers,
      T_Identifiers_Invalid,
      T_Literals_String,
      T_Literals_String_Concat,
      T_Literals_Int,
      T_Literals_Float,
      T_Punctuators,
      T_Invalid_Backtick,
      T_Invalid_Backslash,
      T_Invalid_0c,
      T_Invalid_AtAt,
      T_Comprehensive }

(***************************************************************************)
(* State of one call of nwtrees::lexer(data, prev_output).                 *)
(*   data    the source bytes before the terminating '\0'                  *)
(*   tail    the bytes that lie in memory after the terminator             *)
(*   pc      position of the call: prepare, seek, match, names, done       *)
(*   offset  input.offset                                                  *)
(*   tokens, names, errors   the LexerOutput                               *)
(*   spans   for each committed token, the offset it was committed at and  *)
(*           the length the cursor advanced by                             *)
(*   ni      index of the token the name buffer pass is at                 *)
(*   long_bits   the width of long int in the build                        *)
(*   stale   what the slots of the local array matches hold where          *)
(*           Token::debug lies: no statement of the lexer writes it        *)
(***************************************************************************)
VARIABLES data, tail, long_bits, stale, pc, offset, tokens, names, errors, spans, ni

vars == <<data, tail, long_bits, stale, pc, offset, tokens, names, errors, spans, ni>>

Max(a, b) == IF a > b THEN a ELSE b
Min(a, b) == IF a < b THEN a ELSE b

(* input.base[i]: the source, its terminator, then whatever memory holds.  *)
At(i) ==
    IF i < Len(data) THEN data[i + 1]
    ELSE IF i = Len(data) THEN c_nul
    ELSE IF i - Len(data) <= Len(tail) THEN tail[i - Len(data)]
    ELSE c_nul

read(o) == At(o)
peek(o, count) == At(o + count)

RECURSIVE skip_until(_, _)
skip_until(p, terms) ==
    IF At(p) = c_nul \/ At(p) \in terms THEN 0 ELSE 1 + skip_until(p + 1, terms)

is_whitespace(ch) ==
    ch = c_space \/ ch = c_tab \/ ch = c_vt \/ ch = c_ff \/ ch = c_cr \/ ch = c_nl
is_letter(ch) == (ch >= c_upA /\ ch <= c_upZ) \/ (ch >= c_a /\ ch <= c_z)
is_digit(ch) == ch >= c_0 /\ ch <= c_9
is_digit_hex(ch) == is_digit(ch) \/ (ch >= c_upA /\ ch <= c_upF) \/ (ch >= c_a /\ ch <= c_f)

(* The inner loop of seek for a C-style comment, entered at the '/'.       *)
RECURSIVE block_comment(_)
block_comment(o) ==
    IF read(o) = c_nul THEN o
    ELSE LET o2 == o + Max(1, skip_until(o, {c_slash}))
         IN  IF peek(o2, -1) = c_star THEN o2 + 1 ELSE block_comment(o2)

(* One pass of seek's while loop: the new offset, and whether seek returns *)
(* (ret is then the returned character).                                   *)
seek_pass(o) ==
    LET ch == read(o)
    IN  IF ch = c_nul THEN [offset |-> o, returns |-> TRUE, ret |-> c_nul]
        ELSE IF ch = c_hash
        THEN [offset |-> o + skip_until(o, {c_nl}), returns |-> FALSE, ret |-> c_nul]
        ELSE IF ch = c_slash
        THEN IF peek(o, 1) = c_slash
             THEN [offset |-> o + skip_until(o, {c_nl}), returns |-> FALSE, ret |-> c_nul]
             ELSE IF peek(o, 1) = c_star
             THEN [offset |-> block_comment(o), returns |-> FALSE, ret |-> c_nul]
             ELSE [offset |-> o, returns |-> TRUE, ret |-> ch]
        ELSE IF is_whitespace(ch)
        THEN [offset |-> o + 1, returns |-> FALSE, ret |-> c_nul]
        ELSE [offset |-> o, returns |-> TRUE, ret |-> ch]

RECURSIVE seek(_)
seek(o) ==
    LET r == seek_pass(o)
    IN  IF r.returns THEN r ELSE seek(r.offset)

NoMatch == [ok |-> FALSE, length |-> 0, token |-> [type |-> "None"]]

(* strncmp(input.head(), s, n) == 0 for a spelling s of n bytes, none '\0' *)
RECURSIVE strncmp_eq(_, _, _)
strncmp_eq(o, s, k) ==
    IF k > Len(s) THEN TRUE
    ELSE IF At(o + k - 1) # s[k] THEN FALSE
    ELSE strncmp_eq(o, s, k + 1)

(* The switch of tokenize_keyword: the one keyword tried at this position. *)
keyword_switch(o) ==
    LET ch == read(o)
        p1 == peek(o, 1)
    IN  CASE ch = c_a -> "Action"
          [] ch = c_b -> "Break"
          [] ch = c_c -> IF p1 = c_a THEN "Case" ELSE "Const"
          [] ch = c_d -> IF p1 = c_e THEN "Default" ELSE "Do"
          [] ch = c_e -> (CASE p1 = c_f -> "Effect"
                            [] p1 = c_l -> "Else"
                            [] p1 = c_v -> "Event"
                            [] OTHER -> "none")
          [] ch = c_f -> IF p1 = c_l THEN "Float" ELSE "For"
          [] ch = c_i -> (CASE p1 = c_f -> "If"
                            [] p1 = c_n -> "Int"
                            [] p1 = c_t -> "ItemProperty"
                            [] OTHER -> "none")
          [] ch = c_l -> "Location"
          [] ch = c_o -> "Object"
          [] ch = c_r -> "Return"
          [] ch = c_s -> (CASE p1 = c_t -> IF peek(o, 3) = c_i THEN "String" ELSE "Struct"
                            [] p1 = c_w -> "Switch"
                            [] OTHER -> "none")
          [] ch = c_t -> "Talent"
          [] ch = c_v -> IF p1 = c_e THEN "Vector" ELSE "Void"
          [] ch = c_w -> "While"
          [] OTHER -> "none"

tokenize_keyword(o) ==
    LET keyword == keyword_switch(o)
    IN  IF keyword = "none" THEN NoMatch
        ELSE LET keyword_sv == keywords[Keyword[keyword] + 1].first
             IN  IF strncmp_eq(o, keyword_sv, 1)
                 THEN [ok |-> TRUE, length |-> Len(keyword_sv),
                       token |-> [type |-> "Keyword", keyword |-> keyword, debug |-> stale]]
                 ELSE NoMatch

(* The identifier loop stopping at a digit as well.                        *)
RECURSIVE identifier_scan_letters(_)
identifier_scan_letters(head) ==
    LET ch == At(head + 1)
    IN  IF ch = c_nul THEN head + 1
        ELSE IF ~is_letter(ch) /\ ch # c_underscore THEN head + 1
        ELSE identifier_scan_letters(head + 1)

(* The while loop of tokenize_identifier: where head stops.                *)
RECURSIVE identifier_scan(_)
identifier_scan(head) ==
    LET ch == At(head + 1)
    IN  IF ch = c_nul THEN head + 1
        ELSE IF ~is_letter(ch) /\ ~is_digit(ch) /\ ch # c_underscore THEN head + 1
        ELSE identifier_scan(head + 1)

tokenize_identifier(o) ==
    IF ~is_letter(At(o)) /\ At(o) # c_underscore THEN NoMatch
    ELSE LET length == identifier_scan(o) - o
         IN  [ok |-> TRUE, length |-> length,
              token |-> [type |-> "Identifier",
                         identifier_data |-> [idx |-> o, len |-> length],
                         debug |-> stale]]

(* The '>' case with the look-ahead for '=' after ">>" left out.           *)
greater_case_short(o) ==
    LET p1 == peek(o, 1)
    IN  CASE p1 = c_equal -> "GreaterEquals"
          [] p1 = c_greater -> "GreaterGreater"
          [] OTHER -> "Greater"

(* The '>' case of tokenize_punctuator's switch.                           *)
greater_case(o) ==
    LET p1 == peek(o, 1)
    IN  CASE p1 = c_equal -> "GreaterEquals"
          [] p1 = c_greater ->
               IF peek(o, 2) # c_equal THEN "GreaterGreater" ELSE "GreaterGreaterEquals"
          [] OTHER -> "Greater"

(* The switch of tokenize_punctuator.                                      *)
punctuator_switch(o) ==
    LET ch == read(o)
        p1 == peek(o, 1)
    IN  CASE ch = c_amp -> (CASE p1 = c_amp -> "AmpAmp"
                              [] p1 = c_equal -> "AmpEquals"
                              [] OTHER -> "Amp")
          [] ch = c_star -> IF p1 # c_equal THEN "Asterisk" ELSE "AsteriskEquals"
          [] ch = c_caret -> IF p1 # c_equal THEN "Caret" ELSE "CaretEquals"
          [] ch = c_colon -> IF p1 # c_colon THEN "Colon" ELSE "ColonColon"
          [] ch = c_comma -> "Comma"
          [] ch = c_dot -> IF p1 # c_dot \/ peek(o, 2) # c_dot THEN "Dot" ELSE "DotDotDot"
          [] ch = c_equal -> IF p1 # c_equal THEN "Equal" ELSE "EqualEqual"
          [] ch = c_excl -> IF p1 # c_equal THEN "Exclamation" ELSE "ExclamationEquals"
          [] ch = c_greater -> greater_case(o)
          [] ch = c_lbrace -> "LeftCurlyBracket"
          [] ch = c_lparen -> "LeftParen"
          [] ch = c_lbracket -> "LeftSquareBracket"
          [] ch = c_less -> (CASE p1 = c_equal -> "LessEquals"
                               [] p1 = c_less ->
                                    IF peek(o, 2) # c_equal THEN "LessLess"
                                    ELSE "LessLessEquals"
                               [] OTHER -> "Less")
          [] ch = c_minus -> (CASE p1 = c_equal -> "MinusEquals"
                                [] p1 = c_minus -> "MinusMinus"
                                [] OTHER -> "Minus")
          [] ch = c_percent -> IF p1 # c_equal THEN "Modulo" ELSE "ModuloEquals"
          [] ch = c_pipe -> (CASE p1 = c_equal -> "PipeEquals"
                               [] p1 = c_pipe -> "PipePipe"
                               [] OTHER -> "Pipe")
          [] ch = c_plus -> (CASE p1 = c_equal -> "PlusEquals"
                               [] p1 = c_plus -> "PlusPlus"
                               [] OTHER -> "Plus")
          [] ch = c_question -> "Question"
          [] ch = c_rbrace -> "RightCurlyBracket"
          [] ch = c_rparen -> "RightParen"
          [] ch = c_rbracket -> "RightSquareBracket"
          [] ch = c_semi -> "Semicolon"
          [] ch = c_slash -> IF p1 # c_equal THEN "Slash" ELSE "SlashEquals"
          [] ch = c_tilde -> "Tilde"
          [] OTHER -> "none"

tokenize_punctuator(o) ==
    LET punctuator == punctuator_switch(o)
    IN  IF punctuator = "none" THEN NoMatch
        ELSE [ok |-> TRUE, length |-> Len(punctuators[Punctuator[punctuator] + 1].first),
              token |-> [type |-> "Punctuator", punctuator |-> punctuator,
                         debug |-> stale]]

(* The string scan of tokenize_literal from temp_input.offset = t: whether *)
(* it returned false at a newline, and where temp_input.offset ended.      *)
RECURSIVE string_scan(_)
string_scan(t) ==
    IF read(t) = c_nul THEN [newline |-> FALSE, offset |-> t]
    ELSE LET t2 == t + skip_until(t, {c_quote, c_nl})
         IN  IF read(t2) = c_nl THEN [newline |-> TRUE, offset |-> t2]
             ELSE IF peek(t2, -1) = c_backslash THEN string_scan(t2 + 1)
             ELSE [newline |-> FALSE, offset |-> t2]

(* The float specifier in either case.                                     *)
float_specifier_either_case(ch) == ch = c_f \/ ch = c_upF

(* The byte the numeric scan takes as the float specifier.                 *)
float_specifier(ch) == ch = c_f

(* The test of the stopping character left out: any byte may follow.       *)
stop_accepted(t) == FALSE

(* Whether the scan returns false with temp_input.offset = t at the byte   *)
(* that stopped it.                                                        *)
stop_rejected(t) == ~tokenize_punctuator(t).ok /\ ~is_whitespace(read(t))

(* The for loop of the numeric scan, from distance st.distance on: whether *)
(* it returned false at the stopping character, and the flags it ended on. *)
RECURSIVE number_scan(_, _, _)
number_scan(o, is_hex, st) ==
    LET ch == peek(o, st.distance)
        next(s) == number_scan(o, is_hex, [s EXCEPT !.distance = st.distance + 1])
    IN  IF ch = c_nul THEN [rejected |-> FALSE, st |-> st]
        ELSE IF ~is_hex /\ ~st.seen_decimal /\ ch = c_dot
        THEN next([st EXCEPT !.seen_decimal = TRUE])
        ELSE IF ~is_hex /\ ~st.seen_exponent /\ ch = c_e
        THEN next([st EXCEPT !.seen_exponent = TRUE])
        ELSE IF ~is_hex /\ ~st.seen_float_specifier /\ float_specifier(ch)
        THEN next([st EXCEPT !.seen_float_specifier = TRUE])
        ELSE IF is_digit(ch) \/ (is_hex /\ is_digit_hex(ch))
        THEN next([st EXCEPT !.seen_number = TRUE])
        ELSE IF stop_rejected(o + st.distance)
        THEN [rejected |-> TRUE, st |-> st]
        ELSE [rejected |-> FALSE, st |-> st]

(* The text reference with the opening quote taken for the first byte.    *)
string_entry_at_quote(o, length) == [idx |-> o, len |-> length - 2]

(* literal_data.str of a string literal matched at o over length bytes.    *)
string_entry(o, length) == [idx |-> o + 1, len |-> length - 2]

(* The classification with the float specifier left out.                   *)
literal_type_no_specifier(st) ==
    IF st.seen_decimal \/ st.seen_exponent THEN "Float" ELSE "Int"

(* Literal::Float or Literal::Int, from the flags the scan ended on.       *)
literal_type(st) ==
    IF st.seen_decimal \/ st.seen_exponent \/ st.seen_float_specifier
    THEN "Float" ELSE "Int"

(* The value of a character as a digit, as strtol and strtod read it.      *)
digit_value(ch) ==
    IF ch >= c_0 /\ ch <= c_9 THEN ch - c_0
    ELSE IF ch >= c_a /\ ch <= c_z THEN ch - c_a + 10
    ELSE IF ch >= c_upA /\ ch <= c_upZ THEN ch - c_upA + 10
    ELSE 36

(* The run of digits of the base from p on: where it ends, its value.      *)
RECURSIVE digit_run(_, _, _)
digit_run(p, base, acc) ==
    IF digit_value(At(p)) < base
    THEN digit_run(p + 1, base, acc * base + digit_value(At(p)))
    ELSE [end |-> p, value |-> acc]

(* isspace in the C locale.                                                *)
isspace(ch) == ch \in {c_space, c_tab, c_nl, c_vt, c_ff, c_cr}

RECURSIVE skip_space(_)
skip_space(p) == IF isspace(At(p)) THEN skip_space(p + 1) ELSE p

(* Unsigned 64-bit magnitudes, as four 16-bit limbs from the lowest up;    *)
(* over tells that the magnitude does not fit in 64 bits.                  *)
Limb == 65536
HalfLimb == 32768
ZeroMagnitude == [l |-> <<0, 0, 0, 0>>, over |-> FALSE]

mul_add(m, base, d) ==
    LET t1 == m.l[1] * base + d
        t2 == m.l[2] * base + t1 \div Limb
        t3 == m.l[3] * base + t2 \div Limb
        t4 == m.l[4] * base + t3 \div Limb
    IN  [l |-> <<t1 % Limb, t2 % Limb, t3 % Limb, t4 % Limb>>,
         over |-> m.over \/ t4 \div Limb # 0]

(* The run of digits strtol reads from p on: where it ends, its magnitude. *)
RECURSIVE long_digit_run(_, _, _)
long_digit_run(p, base, acc) ==
    IF digit_value(At(p)) < base
    THEN long_digit_run(p + 1, base, mul_add(acc, base, digit_value(At(p))))
    ELSE [end |-> p, value |-> acc]

(* LONG_MAX and -LONG_MIN as magnitudes, for the width of long int.        *)
LONG_MAX ==
    IF long_bits = 32 THEN <<Limb - 1, HalfLimb - 1, 0, 0>>
    ELSE <<Limb - 1, Limb - 1, Limb - 1, HalfLimb - 1>>
LONG_MIN ==
    IF long_bits = 32 THEN <<0, HalfLimb, 0, 0>> ELSE <<0, 0, 0, HalfLimb>>

(* Whether magnitude m is at most the magnitude bound.                     *)
at_most(m, bound) ==
    /\ ~m.over
    /\ \/ m.l = bound
       \/ \E k \in 1..4 : /\ m.l[k] < bound[k]
                           /\ \A j \in (k + 1)..4 : m.l[j] = bound[j]

(* std::strtol, once the digits from d on have been read: a value out of  *)
(* the range of long int is returned as LONG_MAX or LONG_MIN.              *)
strtol_digits(o, neg, d, run) ==
    IF run.end = d THEN [neg |-> FALSE, l |-> ZeroMagnitude.l, consumed |-> 0]
    ELSE [neg |-> neg,
          l |-> IF at_most(run.value, IF neg THEN LONG_MIN ELSE LONG_MAX)
                THEN run.value.l
                ELSE IF neg THEN LONG_MIN ELSE LONG_MAX,
          consumed |-> run.end - o]

(* std::strtol, once the sign has been read: in base 16 a 0x or 0X that a  *)
(* hex digit follows is skipped.                                           *)
strtol_prefixed(o, base, neg, q) ==
    IF /\ base = 16
       /\ At(q) = c_0
       /\ (At(q + 1) = c_x \/ At(q + 1) = c_upX)
       /\ digit_value(At(q + 2)) < 16
    THEN strtol_digits(o, neg, q + 2, long_digit_run(q + 2, base, ZeroMagnitude))
    ELSE strtol_digits(o, neg, q, long_digit_run(q, base, ZeroMagnitude))

(* std::strtol, once leading whitespace has been skipped up to p.          *)
strtol_signed(o, base, p) ==
    IF At(p) = c_minus \/ At(p) = c_plus
    THEN strtol_prefixed(o, base, At(p) = c_minus, p + 1)
    ELSE strtol_prefixed(o, base, FALSE, p)

(* std::strtol(head, &parsed_head, base) with head at o: the long it       *)
(* returns, as a sign and a magnitude, and parsed_head - head.             *)
strtol(o, base) == strtol_signed(o, base, skip_space(o))

(* (int)parsed: the low 32 bits of the long, read as a signed int.         *)
to_int(parsed) ==
    LET lo == IF parsed.neg THEN (Limb - parsed.l[1]) % Limb ELSE parsed.l[1]
        hi == IF parsed.neg
              THEN (Limb - 1 - parsed.l[2] + IF parsed.l[1] = 0 THEN 1 ELSE 0) % Limb
              ELSE parsed.l[2]
    IN  IF hi >= HalfLimb THEN (hi - Limb) * Limb + lo ELSE hi * Limb + lo

(* A decimal value mant * 10^exp with the trailing zeros of mant removed.  *)
RECURSIVE normal_decimal(_, _, _)
normal_decimal(neg, mant, exp) ==
    IF mant = 0 THEN [neg |-> neg, mant |-> 0, exp |-> 0]
    ELSE IF mant % 10 = 0 THEN normal_decimal(neg, mant \div 10, exp + 1)
    ELSE [neg |-> neg, mant |-> mant, exp |-> exp]

(* std::strtod, once the mantissa has been read: neg its sign, mant the    *)
(* value of its digits, digits and frac_len how many digits it has and how *)
(* many of them after the dot, e where it ends.  An exponent is an e or E, *)
(* an optional sign and at least one digit.                                *)
strtod_exponent(o, neg, mant, digits, frac_len, e) ==
    LET x == IF At(e + 1) = c_minus \/ At(e + 1) = c_plus THEN e + 2 ELSE e + 1
        exp == digit_run(x, 10, 0)
        has_exp == (At(e) = c_e \/ At(e) = c_upE) /\ exp.end > x
        exp_value == IF ~has_exp THEN 0
                     ELSE IF At(e + 1) = c_minus THEN 0 - exp.value ELSE exp.value
    IN  IF digits = 0
        THEN [value |-> normal_decimal(FALSE, 0, 0), consumed |-> 0]
        ELSE [value |-> normal_decimal(neg, mant, exp_value - frac_len),
              consumed |-> (IF has_exp THEN exp.end ELSE e) - o]

(* std::strtod, once the digits before the dot have been read from q on.   *)
strtod_fraction(o, neg, q, int) ==
    IF At(int.end) = c_dot
    THEN LET frac == digit_run(int.end + 1, 10, int.value)
         IN  strtod_exponent(o, neg, frac.value, frac.end - 1 - q,
                             frac.end - (int.end + 1), frac.end)
    ELSE strtod_exponent(o, neg, int.value, int.end - q, 0, int.end)

(* std::strtod, once leading whitespace has been skipped up to p.          *)
strtod_signed(o, p) ==
    IF At(p) = c_minus \/ At(p) = c_plus
    THEN strtod_fraction(o, At(p) = c_minus, p + 1, digit_run(p + 1, 10, 0))
    ELSE strtod_fraction(o, FALSE, p, digit_run(p, 10, 0))

(* std::strtod(head, &parsed_head) with head at o, on text that begins     *)
(* with a sign, a digit or a dot: the decimal value it reads (before any   *)
(* rounding to binary) and parsed_head - head.                             *)
strtod(o) == strtod_signed(o, skip_space(o))

(* The base with the hexadecimal case left out.                            *)
literal_base_ten(is_hex) == 10

(* const int base = is_hex ? 16 : 10                                       *)
literal_base(is_hex) == IF is_hex THEN 16 ELSE 10

(* The value and the parsed length of the numeric literal scanned at o.    *)
literal_parsed(o, is_hex, st) ==
    IF st.seen_decimal \/ st.seen_exponent \/ st.seen_float_specifier
    THEN LET parsed == strtod(o)
         IN  [literal_data |-> [flt |-> parsed.value],
              parsed_distance |-> parsed.consumed
                                  + IF st.seen_float_specifier THEN 1 ELSE 0]
    ELSE LET parsed == strtol(o, literal_base(is_hex))
         IN  [literal_data |-> [integer |-> to_int(parsed)],
              parsed_distance |-> parsed.consumed]

(* is_hex and the flags the numeric scan of tokenize_literal ends on.      *)
literal_scan(o) ==
    LET first_ch == read(o)
        is_hex == first_ch = c_0 /\ (peek(o, 1) = c_x \/ peek(o, 1) = c_upX)
    IN  [is_hex |-> is_hex,
         scan |-> number_scan(o, is_hex,
                      [distance |-> IF is_hex THEN 2 ELSE 1,
                       seen_number |-> is_digit(first_ch),
                       seen_decimal |-> first_ch = c_dot,
                       seen_exponent |-> FALSE,
                       seen_float_specifier |-> FALSE])]

(* The end of the numeric case of tokenize_literal, after the scan.        *)
numeric_match(o, is_hex, scan) ==
    IF scan.rejected THEN NoMatch
    ELSE IF ~scan.st.seen_number THEN NoMatch
    ELSE [ok |-> TRUE, length |-> scan.st.distance,
          token |-> [type |-> "Literal", literal |-> literal_type(scan.st),
                     literal_data |-> literal_parsed(o, is_hex, scan.st).literal_data,
                     debug |-> stale]]

tokenize_literal(o) ==
    LET first_ch == read(o)
        is_string == first_ch = c_quote
        is_number == is_digit(first_ch)
        is_decimal == first_ch = c_dot
        is_sign == first_ch = c_plus \/ first_ch = c_minus
    IN  IF is_string
        THEN LET scan == string_scan(o + 1)
                 length == scan.offset - o + 1
             IN  IF scan.newline THEN NoMatch
                 ELSE [ok |-> TRUE, length |-> length,
                       token |-> [type |-> "Literal", literal |-> "String",
                                  str |-> string_entry(o, length),
                                  debug |-> stale]]
        ELSE IF is_number \/ is_decimal \/ is_sign
        THEN numeric_match(o, literal_scan(o).is_hex, literal_scan(o).scan)
        ELSE NoMatch

(* make_debug_ranges(data), from head = h on a line that began at start.   *)
RECURSIVE debug_ranges_from(_, _, _)
debug_ranges_from(h, line, start) ==
    LET stop == CHOOSE i \in h..Len(data) :
                   /\ At(i) = c_nul \/ At(i) = c_nl
                   /\ \A j \in h..(i - 1) : At(j) # c_nul /\ At(j) # c_nl
    IN  IF At(stop) = c_nul
        THEN << [line |-> line, index_start |-> start, index_end |-> stop] >>
        ELSE << [line |-> line, index_start |-> start, index_end |-> stop] >>
             \o debug_ranges_from(stop + 1, line + 1, stop + 1)

make_debug_ranges == debug_ranges_from(0, 0, 0)

(* What dereferencing std::end(ranges) may yield.                          *)
StrayRanges ==
    { [line |-> 0, index_start |-> 0, index_end |-> e] : e \in {0, Len(data)} }

(* find_debug_range: std::lower_bound on index_end; the set of ranges the  *)
(* returned reference may denote.                                          *)
find_debug_range(ranges, o) ==
    LET hit == { j \in 1..Len(ranges) : ~(ranges[j].index_end < o) }
    IN  IF hit = {} THEN StrayRanges
        ELSE { ranges[CHOOSE j \in hit : \A k \in hit : j <= k] }

LineBuffSize == 128

line_buff(range) ==
    LET len_to_copy == Min(LineBuffSize - 1, range.index_end - range.index_start)
    IN  [k \in 1..len_to_copy |-> At(range.index_start + k - 1)]

(* cmp with the comparison turned round: the shortest match would win.     *)
cmp_shortest(lhs, rhs) == lhs.length < rhs.length

cmp(lhs, rhs) == lhs.length > rhs.length

(* std::stable_sort(matches, matches + match_count, &cmp)                  *)
sort_insert(sorted, x) ==
    LET before == { j \in 1..Len(sorted) : cmp(x, sorted[j]) }
    IN  IF before = {} THEN Append(sorted, x)
        ELSE LET j == CHOOSE j \in before : \A k \in before : j <= k
             IN  SubSeq(sorted, 1, j - 1) \o <<x>> \o SubSeq(sorted, j, Len(sorted))

RECURSIVE stable_sort(_)
stable_sort(s) ==
    IF s = << >> THEN << >>
    ELSE sort_insert(stable_sort(SubSeq(s, 1, Len(s) - 1)), s[Len(s)])

(* The matches gathered at offset o, in the order the recognisers run.     *)
gather_matches(o) ==
    SelectSeq(<< tokenize_keyword(o), tokenize_identifier(o),
                 tokenize_literal(o), tokenize_punctuator(o) >>,
              LAMBDA m : m.ok)

selected_match(o) ==
    LET matches == gather_matches(o)
    IN  IF Len(matches) > 1 THEN stable_sort(matches)[1] ELSE matches[1]

(***************************************************************************)
(* nwtrees::lexer                                                          *)
(***************************************************************************)
(* prepare_output without names.clear().                                   *)
PrepareOutputKeepsNames ==
    /\ pc = "prepare"
    /\ tokens' = << >>
    /\ errors' = << >>
    /\ pc' = "seek"
    /\ UNCHANGED <<data, tail, long_bits, stale, offset, names, spans, ni>>

PrepareOutput ==
    /\ pc = "prepare"
    /\ tokens' = << >>
    /\ names' = << >>
    /\ errors' = << >>
    /\ pc' = "seek"
    /\ UNCHANGED <<data, tail, long_bits, stale, offset, spans, ni>>

Seek ==
    /\ pc = "seek"
    /\ LET r == seek(offset)
       IN  /\ offset' = r.offset
           /\ pc' = IF r.ret = c_nul THEN "names" ELSE "match"
    /\ UNCHANGED <<data, tail, long_bits, stale, tokens, names, errors, spans, ni>>

CommitToken ==
    /\ pc = "match"
    /\ gather_matches(offset) # << >>
    /\ LET sel == selected_match(offset)
       IN  /\ tokens' = Append(tokens, sel.token)
           /\ spans' = Append(spans, [start |-> offset, length |-> sel.length])
           /\ offset' = offset + sel.length
    /\ pc' = "seek"
    /\ UNCHANGED <<data, tail, long_bits, stale, names, errors, ni>>

(* The error path without its break: the loop would go on after the byte.  *)
UnknownTokenContinue ==
    /\ pc = "match"
    /\ gather_matches(offset) = << >>
    /\ \E range \in find_debug_range(make_debug_ranges, offset) :
          errors' = Append(errors, [code |-> "Unknown",
                                    messages |-> << "Unknown Token", line_buff(range) >>])
    /\ offset' = offset + 1
    /\ pc' = "seek"
    /\ UNCHANGED <<data, tail, long_bits, stale, tokens, names, spans, ni>>

UnknownToken ==
    /\ pc = "match"
    /\ gather_matches(offset) = << >>
    /\ \E range \in find_debug_range(make_debug_ranges, offset) :
          errors' = Append(errors, [code |-> "Unknown",
                                    messages |-> << "Unknown Token", line_buff(range) >>])
    /\ pc' = "names"
    /\ UNCHANGED <<data, tail, long_bits, stale, offset, tokens, names, spans, ni>>

(* The text reference a token carries, if it needs a name buffer entry.    *)
needs_name(token) ==
    token.type = "Identifier" \/ (token.type = "Literal" /\ token.literal = "String")

name_entry(token) ==
    IF token.type = "Identifier" THEN token.identifier_data ELSE token.str

with_entry(token, entry) ==
    IF token.type = "Identifier" THEN [token EXCEPT !.identifier_data = entry]
    ELSE [token EXCEPT !.str = entry]

(* One pass of the name buffer loop, for tokens[ni].                       *)
NameBufferPass ==
    /\ pc = "names"
    /\ ni <= Len(tokens)
    /\ LET token == tokens[ni]
       IN  IF needs_name(token)
           THEN LET entry == name_entry(token)
                    new_idx == Len(names)
                IN  /\ names' = names \o [k \in 1..entry.len |-> At(entry.idx + k - 1)]
                    /\ tokens' = [tokens EXCEPT
                                    ![ni] = with_entry(token, [idx |-> new_idx,
                                                               len |-> entry.len])]
           ELSE UNCHANGED <<names, tokens>>
    /\ ni' = ni + 1
    /\ UNCHANGED <<data, tail, long_bits, stale, pc, offset, errors, spans>>

Return ==
    /\ pc = "names"
    /\ ni > Len(tokens)
    /\ pc' = "done"
    /\ UNCHANGED <<data, tail, long_bits, stale, offset, tokens, names, errors, spans, ni>>

Next ==
    \/ PrepareOutput
    \/ Seek
    \/ CommitToken
    \/ UnknownToken
    \/ NameBufferPass
    \/ Return

(***************************************************************************)
(* Inputs                                                                  *)
(***************************************************************************)
RECURSIVE Strs(_, _)
Strs(A, n) ==
    IF n = 0 THEN { << >> }
    ELSE LET S == Strs(A, n - 1) IN S \cup { Append(s, a) : s \in S, a \in A }

(* The previous outputs a caller may pass: a fresh one and a used one.     *)
PrevOutputs ==
    { [tokens |-> << >>, names |-> << >>, errors |-> << >>],
      [tokens |-> << [type |-> "Identifier", identifier_data |-> [idx |-> 0, len |-> 1]] >>,
       names |-> << c_a >>,
       errors |-> << [code |-> "Unknown", messages |-> << "Unknown Token", << c_at >> >>] >>] }

InitOn(Inputs, Tails) ==
    /\ data \in Inputs
    /\ tail \in Tails
    /\ pc = "prepare"
    /\ offset = 0
    /\ \E prev \in PrevOutputs :
          /\ tokens = prev.tokens
          /\ names = prev.names
          /\ errors = prev.errors
    /\ spans = << >>
    /\ ni = 1

(* The build and the stack the call runs on.                               *)
BuildOn(Longs, Stales) ==
    /\ long_bits \in Longs
    /\ stale \in Stales

(* long int is 32 bits wide under LLP64 and 64 bits wide under LP64.       *)
LongWidths == {32, 64}
LP64 == {64}

(* Values the unwritten Token::debug may hold.                             *)
ZeroDebug == [line |-> 0, column_start |-> 0, column_end |-> 0]
StaleDebug == {ZeroDebug, [line |-> 1, column_start |-> 0, column_end |-> 1]}

(* Memory after the terminator: nothing the lexer may rely on.             *)
MaxTail == 1
TailAlphabet == {c_quote, c_at}
Tails == Strs(TailAlphabet, MaxTail)
NoTail == { << >> }

(* Words: keywords, identifiers, numbers, punctuators and unknown bytes.   *)
MaxWordLen == 4
WordAlphabet == {c_i, c_f, c_1, c_underscore, c_plus, c_dot, c_space, c_at}
InitWords ==
    /\ InitOn(Corpus \cup Strs(WordAlphabet, MaxWordLen), NoTail)
    /\ BuildOn(LP64, {ZeroDebug})
SpecWords == InitWords /\ [][Next]_vars

(* String literals.                                                        *)
MaxStringLen == 5
StringAlphabet == {c_quote, c_backslash, c_nl, c_a, c_space}
InitStrings ==
    /\ InitOn(Corpus \cup Strs(StringAlphabet, MaxStringLen), Tails)
    /\ BuildOn(LP64, {ZeroDebug})
SpecStrings == InitStrings /\ [][Next]_vars

(* Whitespace, directives and comments.                                    *)
MaxCommentLen == 5
CommentAlphabet == {c_slash, c_star, c_hash, c_nl, c_a}
InitComments ==
    /\ InitOn(Corpus \cup Strs(CommentAlphabet, MaxCommentLen), Tails)
    /\ BuildOn(LP64, {ZeroDebug})
SpecComments == InitComments /\ [][Next]_vars

(* Numeric literals.                                                       *)
MaxNumberLen == 4
NumberAlphabet == {c_0, c_1, c_x, c_e, c_f, c_upF, c_dot, c_minus, c_space}
(* Integer literals at and beyond the ends of int and of long int.         *)
WideNumbers ==
    { <<c_2, c_1, c_4, c_7, c_4, c_8, c_3, c_6, c_4, c_7>>,
      <<c_2, c_1, c_4, c_7, c_4, c_8, c_3, c_6, c_4, c_8>>,
      <<c_minus, c_2, c_1, c_4, c_7, c_4, c_8, c_3, c_6, c_4, c_8>>,
      <<c_minus, c_2, c_1, c_4, c_7, c_4, c_8, c_3, c_6, c_4, c_9>>,
      <<c_0, c_x, c_7, c_upF, c_upF, c_upF, c_upF, c_upF, c_upF, c_upF>>,
      <<c_0, c_x, c_8, c_0, c_0, c_0, c_0, c_0, c_0, c_0>>,
      <<c_0, c_x, c_upF, c_upF, c_upF, c_upF, c_upF, c_upF, c_upF, c_upF>>,
      <<c_9, c_9, c_9, c_9, c_9, c_9, c_9, c_9, c_9, c_9, c_9, c_9, c_9, c_9, c_9, c_9, c_9, c_9, c_9, c_9>>,
      <<c_0, c_x, c_5, c_upF>>,
      <<c_0, c_1, c_0>> }
InitNumbers ==
    /\ InitOn(Corpus \cup WideNumbers \cup Strs(NumberAlphabet, MaxNumberLen), NoTail)
    /\ BuildOn(LongWidths, {ZeroDebug})
SpecNumbers == InitNumbers /\ [][Next]_vars

(* Punctuators.                                                            *)
MaxPunctLen == 3
PunctAlphabet ==
    {c_greater, c_less, c_equal, c_dot, c_plus, c_minus, c_amp, c_pipe, c_colon,
     c_star, c_excl, c_semi, c_space, c_a}
InitPuncts ==
    /\ InitOn(Corpus \cup Strs(PunctAlphabet, MaxPunctLen), NoTail)
    /\ BuildOn(LP64, {ZeroDebug})
SpecPuncts == InitPuncts /\ [][Next]_vars

(* Tokens and unknown bytes over several lines.                            *)
MaxLineLen == 4
LineAlphabet == {c_a, c_plus, c_nl, c_at}
(* A line longer than line_buff with an unknown byte in it.                *)
LongLine == [k \in 1..(LineBuffSize + 2) |-> IF k = 3 THEN c_at ELSE c_a]
InitLines ==
    /\ InitOn(Corpus \cup {LongLine} \cup Strs(LineAlphabet, MaxLineLen), NoTail)
    /\ BuildOn(LP64, StaleDebug)
SpecLines == InitLines /\ [][Next]_vars

(* Beginnings of the keywords string, struct and switch, which the switch  *)
(* of tokenize_keyword tells apart by looking ahead.                       *)
MaxKeywordLen == 3
KeywordAlphabet == {c_s, c_t, c_i, c_space}
InitKeywords ==
    /\ InitOn(Corpus \cup Strs(KeywordAlphabet, MaxKeywordLen), NoTail)
    /\ BuildOn(LP64, {ZeroDebug})
SpecKeywords == InitKeywords /\ [][Next]_vars

(* Every family above.                                                     *)
Init ==
    \/ InitWords \/ InitStrings \/ InitComments \/ InitNumbers \/ InitPuncts
    \/ InitLines \/ InitKeywords
Spec == Init /\ [][Next]_vars

(***************************************************************************)
(* Properties                                                              *)
(***************************************************************************)
Started == pc # "prepare"
JustCommitted == pc = "seek" /\ spans # << >>
LastSpan == spans[Len(spans)]
LastToken == tokens[Len(tokens)]

(* The four recognisers' results at o, in the order of priority.           *)
Recognised(o) ==
    << tokenize_keyword(o), tokenize_identifier(o),
       tokenize_literal(o), tokenize_punctuator(o) >>

(* C1: whenever a token has just been committed at an offset o, its length *)
(* is the greatest length any recogniser matched at o, its type is that of *)
(* the first recogniser, in the order keyword, identifier, literal,        *)
(* punctuator, whose match has that length, and the cursor stands exactly  *)
(* that length after o.                                                    *)
C1_LongestMatchWins ==
    JustCommitted =>
        LET o == LastSpan.start
            r == Recognised(o)
            matched == { j \in 1..4 : r[j].ok }
            longest == { j \in matched : \A k \in matched : r[k].length <= r[j].length }
            first == CHOOSE j \in longest : \A k \in longest : j <= k
        IN  /\ matched # {}
            /\ LastSpan.length = r[first].length
            /\ LastToken = r[first].token
            /\ offset = o + LastSpan.length

(* C1 witness: a keyword was committed where the identifier recogniser     *)
(* matched the same length, then a literal where the punctuator recogniser *)
(* matched a shorter length.                                               *)
C1_Witness ==
    /\ JustCommitted
    /\ Len(tokens) = 2
    /\ tokens[1].type = "Keyword"
    /\ tokenize_identifier(spans[1].start).ok
    /\ tokenize_identifier(spans[1].start).length = spans[1].length
    /\ LastToken.type = "Literal"
    /\ tokenize_punctuator(LastSpan.start).ok
    /\ tokenize_punctuator(LastSpan.start).length < LastSpan.length

(* Whether the spelling s lies in memory at offset o.                      *)
SpelledAt(s, o) == \A k \in 1..Len(s) : At(o + k - 1) = s[k]

(* The output of a finished call is one token per table entry, in table    *)
(* order, of the given type and with the entry's enumerator.               *)
OneTokenPerEntry(table, type) ==
    /\ Len(tokens) = Len(table)
    /\ \A k \in 1..Len(table) :
          /\ k <= Len(tokens)
          /\ tokens[k].type = type
          /\ IF type = "Keyword" THEN tokens[k].keyword = table[k].second
             ELSE tokens[k].punctuator = table[k].second

(* C2: lexing the keyword spellings joined by single spaces yields one     *)
(* Keyword token per table entry, with that entry's id, in table order,    *)
(* no error and an empty name buffer.                                      *)
C2_KeywordsRoundTrip ==
    (pc = "done" /\ data = T_Keywords) =>
        /\ OneTokenPerEntry(keywords, "Keyword")
        /\ errors = << >>
        /\ names = << >>

(* The table entries whose spelling is a prefix of the input at o.         *)
PunctuatorsAt(o) == { k \in 1..Len(punctuators) : SpelledAt(punctuators[k].first, o) }

(* C3: at every offset of the source, tokenize_punctuator matches exactly  *)
(* when some table spelling is a prefix of the input there, and it reports *)
(* the enumerator and length of the longest such spelling; and lexing the  *)
(* table spellings joined by single spaces yields one Punctuator token per *)
(* entry, in table order, with no error.                                   *)
C3_LongestPunctuator ==
    /\ pc = "match" =>
          \A o \in 0..Len(data) :
             LET m == tokenize_punctuator(o)
                 at == PunctuatorsAt(o)
             IN  /\ m.ok <=> at # {}
                 /\ m.ok =>
                       \E k \in at :
                          /\ \A j \in at : Len(punctuators[j].first) <= Len(punctuators[k].first)
                          /\ m.token.punctuator = punctuators[k].second
                          /\ m.length = Len(punctuators[k].first)
    /\ (pc = "done" /\ data = T_Punctuators) =>
          /\ OneTokenPerEntry(punctuators, "Punctuator")
          /\ errors = << >>

(* C3 witness: ">>=" was committed as one GreaterGreaterEquals token.      *)
C3_Witness ==
    /\ JustCommitted
    /\ LastToken.type = "Punctuator"
    /\ LastToken.punctuator = "GreaterGreaterEquals"
    /\ LastSpan.length = 3
    /\ PunctuatorsAt(LastSpan.start) = {33, 35, 36}

(* The bytes an identifier may continue with, and the length of the       *)
(* maximal run of them at o.                                               *)
IdentifierBytes ==
    (c_upA..c_upZ) \cup (c_a..c_z) \cup (c_0..c_9) \cup {c_underscore}

RECURSIVE RunLength(_)
RunLength(o) == IF At(o) \in IdentifierBytes THEN 1 + RunLength(o + 1) ELSE 0

Bytes(o, n) == [k \in 1..n |-> At(o + k - 1)]

KeywordSpellings == { keywords[k].first : k \in 1..Len(keywords) }

StartsIdentifier(o) == At(o) \in IdentifierBytes \ (c_0..c_9)

(* C4: at a position that starts with a letter or underscore and whose     *)
(* maximal run of letters, digits and underscores is not a keyword         *)
(* spelling, the lexer reports no error and commits one Identifier token   *)
(* whose text is the whole run; the identifier recogniser matches at no    *)
(* digit.                                                                  *)
C4_IdentifierIsWholeRun ==
    /\ JustCommitted =>
          LET o == LastSpan.start
              n == RunLength(o)
          IN  (StartsIdentifier(o) /\ Bytes(o, n) \notin KeywordSpellings) =>
                 /\ LastToken.type = "Identifier"
                 /\ LastToken.identifier_data = [idx |-> o, len |-> n]
                 /\ LastSpan.length = n
    /\ (Started /\ errors # << >>) => ~StartsIdentifier(offset)
    /\ pc = "match" =>
          \A o \in 0..Len(data) : is_digit(At(o)) => ~tokenize_identifier(o).ok

(* C4 witness: an identifier was committed whose run has a keyword         *)
(* spelling as a proper prefix and holds a digit.                          *)
C4_Witness ==
    /\ JustCommitted
    /\ LastToken.type = "Identifier"
    /\ tokenize_keyword(LastSpan.start).ok
    /\ tokenize_keyword(LastSpan.start).length < LastSpan.length
    /\ \E k \in 1..LastSpan.length : is_digit(At(LastSpan.start + k - 1))

(* C5: at most one error is ever recorded; once it is, the call has left   *)
(* the token loop at an offset where no recogniser matches, every token    *)
(* committed ends at or before that offset, and no token is committed      *)
(* afterwards; a call that leaves the loop without an error has reached    *)
(* the end of input.                                                       *)
C5_FirstErrorStops ==
    /\ [](Started =>
            /\ Len(errors) <= 1
            /\ errors # << >> =>
                  /\ pc \in {"names", "done"}
                  /\ read(offset) # c_nul
                  /\ gather_matches(offset) = << >>
                  /\ Len(tokens) = Len(spans)
                  /\ \A k \in 1..Len(spans) : spans[k].start + spans[k].length <= offset
            /\ (pc \in {"names", "done"} /\ errors = << >>) => read(offset) = c_nul)
    /\ [][(Started /\ errors # << >>) =>
             /\ Len(tokens') = Len(tokens)
             /\ spans' = spans
             /\ errors' = errors
             /\ offset' = offset]_vars

(* C5 witness: a call returned one error alongside two committed tokens.   *)
C5_Witness ==
    /\ pc = "done"
    /\ Len(errors) = 1
    /\ Len(tokens) = 2
    /\ offset < Len(data) - 1

WhitespaceBytes == {c_space, c_tab, c_vt, c_ff, c_cr, c_nl}

(* The offset of the next newline at or after o, or the end of the source. *)
RECURSIVE LineEnd(_)
LineEnd(o) == IF o >= Len(data) \/ data[o + 1] = c_nl THEN o ELSE LineEnd(o + 1)

(* The offsets at or after o where a comment closer begins.                *)
Closers(o) ==
    { j \in o..(Len(data) - 2) : data[j + 1] = c_star /\ data[j + 2] = c_slash }

(* Whether the source from o on is made only of whitespace, directive      *)
(* lines, line comments and terminated block comments; fresh tells that    *)
(* only whitespace precedes o on its line.                                 *)
RECURSIVE OnlySkippable(_, _)
OnlySkippable(o, fresh) ==
    IF o >= Len(data) THEN TRUE
    ELSE LET ch == data[o + 1]
             nx == IF o + 1 < Len(data) THEN data[o + 2] ELSE c_nul
         IN  IF ch = c_nl THEN OnlySkippable(o + 1, TRUE)
             ELSE IF ch \in WhitespaceBytes THEN OnlySkippable(o + 1, fresh)
             ELSE IF ch = c_hash /\ fresh THEN OnlySkippable(LineEnd(o), fresh)
             ELSE IF ch = c_slash /\ nx = c_slash THEN OnlySkippable(LineEnd(o), FALSE)
             ELSE IF ch = c_slash /\ nx = c_star /\ Closers(o + 2) # {}
             THEN LET c == CHOOSE j \in Closers(o + 2) : \A k \in Closers(o + 2) : j <= k
                  IN  OnlySkippable(c + 2, FALSE)
             ELSE FALSE

(* C6: a source made only of whitespace, directive lines, line comments    *)
(* and terminated block comments lexes to no token, no name and no error.  *)
C6_SkippableYieldsNothing ==
    (pc = "done" /\ OnlySkippable(0, TRUE)) =>
        /\ tokens = << >>
        /\ names = << >>
        /\ errors = << >>

IsString(token) == token.type = "Literal" /\ token.literal = "String"

NameSlice(entry) == [k \in 1..entry.len |-> names[entry.idx + k]]

(* C7: after the call returns, the name buffer bytes of every Identifier   *)
(* token are the bytes of its run, and those of every String token are the *)
(* bytes between its quotes, also when an error is returned.               *)
C7_NamesEqualSource ==
    pc = "done" =>
        \A k \in 1..Len(tokens) :
           LET token == tokens[k]
               o == spans[k].start
               n == spans[k].length
           IN  /\ token.type = "Identifier" =>
                     /\ token.identifier_data.idx + token.identifier_data.len <= Len(names)
                     /\ token.identifier_data.len = n
                     /\ NameSlice(token.identifier_data) = Bytes(o, n)
               /\ (token.type = "Literal" /\ token.literal = "String") =>
                     /\ token.str.idx + token.str.len <= Len(names)
                     /\ token.str.len = n - 2
                     /\ NameSlice(token.str) = Bytes(o + 1, n - 2)

(* C7 witness: a call returned an error alongside an identifier and a      *)
(* string literal whose text was moved to a later place of the buffer.     *)
C7_Witness ==
    /\ pc = "done"
    /\ errors # << >>
    /\ Len(tokens) = 2
    /\ tokens[1].type = "Identifier"
    /\ IsString(tokens[2])
    /\ tokens[2].str.idx > 0
    /\ tokens[2].str.len > 0

(* The offsets after o, inside the source, of the quotes that no backslash *)
(* immediately precedes.                                                   *)
UnescapedQuotes(o) ==
    { j \in (o + 1)..(Len(data) - 1) : At(j) = c_quote /\ At(j - 1) # c_backslash }

(* C8: at an opening quote the literal recogniser matches exactly when an  *)
(* unescaped closing quote comes before any newline and before the end of  *)
(* input, with the length through that quote and the text between the      *)
(* quotes; otherwise nothing matches and the lexer reports an error.       *)
C8_StringNeedsClosingQuote ==
    (pc = "match" /\ offset < Len(data) /\ read(offset) = c_quote) =>
        LET m == tokenize_literal(offset)
            qs == UnescapedQuotes(offset)
            q == CHOOSE j \in qs : \A k \in qs : j <= k
        IN  IF qs # {} /\ \A i \in (offset + 1)..(q - 1) : At(i) # c_nl
            THEN /\ m.ok
                 /\ m.length = q - offset + 1
                 /\ m.token.str = [idx |-> offset + 1, len |-> q - offset - 1]
            ELSE gather_matches(offset) = << >>

(* C9: string literals separated only by whitespace come out as a single   *)
(* String token: no two consecutive String tokens of a returned output,    *)
(* both closed inside the source, have only whitespace between them.       *)
C9_AdjacentStringsMerged ==
    pc = "done" =>
        \A k \in 1..(Len(tokens) - 1) :
           ~ /\ IsString(tokens[k])
             /\ IsString(tokens[k + 1])
             /\ spans[k + 1].start + spans[k + 1].length <= Len(data)
             /\ spans[k].start + spans[k].length < spans[k + 1].start
             /\ \A i \in (spans[k].start + spans[k].length)..(spans[k + 1].start - 1) :
                   At(i) \in WhitespaceBytes

(* C10: a committed numeric literal is Float exactly when its text, not    *)
(* begun by 0x or 0X, holds a '.', an 'e' or an 'f', and Int otherwise.    *)
C10_FloatOrInt ==
    (JustCommitted /\ LastToken.type = "Literal" /\ LastToken.literal # "String") =>
        LET o == LastSpan.start
            text == Bytes(o, LastSpan.length)
            hex == Len(text) >= 2 /\ text[1] = c_0 /\ text[2] \in {c_x, c_upX}
            marked == \E k \in 1..Len(text) : text[k] \in {c_dot, c_e, c_f}
        IN  LastToken.literal = IF ~hex /\ marked THEN "Float" ELSE "Int"

(* C10 witness: a literal whose text holds e and f, being hex digits, was   *)
(* committed as Int.                                                       *)
C10_Witness ==
    /\ JustCommitted
    /\ LastToken.type = "Literal"
    /\ LastToken.literal = "Int"
    /\ \E k \in 1..LastSpan.length : At(LastSpan.start + k - 1) = c_e
    /\ \E k \in 1..LastSpan.length : At(LastSpan.start + k - 1) = c_f

INT_MAX == (HalfLimb - 1) * Limb + (Limb - 1)
INT_MIN == (0 - HalfLimb) * Limb

(* The digits At(p) .. At(e - 1) read in the base with the sign, when the  *)
(* value fits in a 32-bit signed int.                                      *)
RECURSIVE DigitsValue(_, _, _, _, _)
DigitsValue(p, e, base, neg, acc) ==
    IF p >= e THEN [fits |-> TRUE, value |-> acc]
    ELSE LET d == digit_value(At(p))
         IN  IF ~neg /\ acc <= (INT_MAX - d) \div base
             THEN DigitsValue(p + 1, e, base, neg, acc * base + d)
             ELSE IF neg /\ 0 - acc <= (INT_MAX - d) \div base
             THEN DigitsValue(p + 1, e, base, neg, acc * base - d)
             ELSE IF neg /\ p + 1 = e /\ acc * base = INT_MIN + d
             THEN [fits |-> TRUE, value |-> INT_MIN]
             ELSE [fits |-> FALSE, value |-> 0]

HasHexPrefix(o) == At(o) = c_0 /\ At(o + 1) \in {c_x, c_upX}
HasSign(o) == At(o) \in {c_plus, c_minus}

(* The value the text of an Int literal at o over length bytes denotes.    *)
IntValue(o, length) ==
    IF HasHexPrefix(o) THEN DigitsValue(o + 2, o + length, 16, FALSE, 0)
    ELSE IF HasSign(o) THEN DigitsValue(o + 1, o + length, 10, At(o) = c_minus, 0)
    ELSE DigitsValue(o, o + length, 10, FALSE, 0)

RECURSIVE DigitRunEnd(_, _)
DigitRunEnd(p, base) ==
    IF digit_value(At(p)) < base THEN DigitRunEnd(p + 1, base) ELSE p

(* The length of the integer text that begins at o: 0x or 0X and the hex   *)
(* digits after it, or an optional sign and the decimal digits after it;   *)
(* 0 when no digit is there.                                               *)
IntTextLength(o) ==
    IF HasHexPrefix(o) /\ digit_value(At(o + 2)) < 16
    THEN DigitRunEnd(o + 2, 16) - o
    ELSE LET d == IF HasSign(o) THEN o + 1 ELSE o
         IN  IF is_digit(At(d)) THEN DigitRunEnd(d, 10) - o ELSE 0

(* Bytes after which an integer text is over: the end, whitespace, or the  *)
(* first byte of a punctuator other than the dot.                          *)
EndsInteger(ch) ==
    \/ ch = c_nul
    \/ ch \in WhitespaceBytes
    \/ ch # c_dot /\ \E k \in 1..Len(punctuators) : punctuators[k].first[1] = ch

(* C11: a committed Int literal whose value fits in a 32-bit signed int     *)
(* carries the value of its digits, read with the optional sign in base 10 *)
(* (a leading zero does not make it octal) or in base 16 after 0x or 0X;   *)
(* and an integer text followed by the end, whitespace or a punctuator is  *)
(* committed whole, as one Int literal.                                    *)
C11_IntValue ==
    JustCommitted =>
        LET o == LastSpan.start
            whole == IntTextLength(o)
        IN  /\ (LastToken.type = "Literal" /\ LastToken.literal = "Int") =>
                  /\ IntValue(o, LastSpan.length).fits =>
                        LastToken.literal_data.integer = IntValue(o, LastSpan.length).value
                  /\ digit_value(At(o + LastSpan.length))
                        >= (IF HasHexPrefix(o) THEN 16 ELSE 10)
            /\ (whole > 0 /\ EndsInteger(At(o + whole))) =>
                  /\ LastToken.type = "Literal"
                  /\ LastToken.literal = "Int"
                  /\ LastSpan.length = whole

(* C11 witness: 0999 was committed as the Int 999 and then 0xFF as the Int *)
(* 255, each as one token.                                                 *)
C11_Witness ==
    /\ JustCommitted
    /\ Len(tokens) >= 2
    /\ LastToken.type = "Literal"
    /\ LastToken.literal = "Int"
    /\ Bytes(LastSpan.start, LastSpan.length) = <<c_0, c_x, c_upF, c_upF>>
    /\ LastToken.literal_data.integer = 255
    /\ Bytes(spans[Len(spans) - 1].start, 4) = <<c_0, c_9, c_9, c_9>>
    /\ spans[Len(spans) - 1].length = 4
    /\ tokens[Len(tokens) - 1].literal_data.integer = 999

(* C12: at a '.', '+' or '-' that is not directly followed by a digit (nor, *)
(* for a sign, by '.' and a digit) the literal recogniser does not match   *)
(* and the lexer commits a punctuator, also when a letter such as e or f   *)
(* follows; directly followed by digits that end at the end of input, at   *)
(* whitespace or at a punctuator, it forms one literal with the digits.    *)
C12_SignOrDotNeedsDigit ==
    (pc = "match" /\ At(offset) \in {c_dot, c_plus, c_minus}) =>
        LET followed == \/ is_digit(At(offset + 1))
                        \/ /\ HasSign(offset)
                           /\ At(offset + 1) = c_dot
                           /\ is_digit(At(offset + 2))
            digits_end == DigitRunEnd(offset + 1, 10)
        IN  /\ ~followed =>
                  /\ ~tokenize_literal(offset).ok
                  /\ gather_matches(offset) # << >>
                  /\ selected_match(offset).token.type = "Punctuator"
            /\ (is_digit(At(offset + 1)) /\ EndsInteger(At(digits_end))) =>
                  /\ tokenize_literal(offset).ok
                  /\ selected_match(offset).token.type = "Literal"
                  /\ selected_match(offset).length = digits_end - offset

(* The byte the numeric scan begun at o stops at.                          *)
ScanStop(o) == At(o + literal_scan(o).scan.st.distance)

(* A byte that may not follow a number: not the end of input, not          *)
(* whitespace, not the first byte of a punctuator.                         *)
BadStop(ch) ==
    /\ ch # c_nul
    /\ ch \notin WhitespaceBytes
    /\ \A k \in 1..Len(punctuators) : punctuators[k].first[1] # ch

(* C13: when the byte that ends a numeric scan is not the end of input,    *)
(* not whitespace and not the first byte of a punctuator, the literal      *)
(* recogniser does not match; at a digit no recogniser matches then, the   *)
(* lexer commits nothing there, and the sources 0c and 0test return no     *)
(* token and one error.                                                    *)
C13_NumberMustEndCleanly ==
    /\ (pc = "match" /\ (is_digit(At(offset)) \/ At(offset) \in {c_dot, c_plus, c_minus})
                     /\ BadStop(ScanStop(offset))) =>
          /\ ~tokenize_literal(offset).ok
          /\ is_digit(At(offset)) => gather_matches(offset) = << >>
    /\ (Started /\ pc # "match") =>
          \A k \in 1..Len(spans) :
             ~(is_digit(At(spans[k].start)) /\ BadStop(ScanStop(spans[k].start)))
    /\ (pc = "done" /\ data \in {T_Invalid_0c, T_Identifiers_Invalid}) =>
          tokens = << >> /\ Len(errors) = 1

(* C13 witness: after a committed token the lexer returned an error at a   *)
(* digit whose number is directly followed by a letter.                     *)
C13_Witness ==
    /\ pc = "done"
    /\ tokens # << >>
    /\ errors # << >>
    /\ is_digit(At(offset))
    /\ is_letter(ScanStop(offset))

(* The bytes the name buffer pass appends for tokens[1] .. tokens[k].      *)
RECURSIVE NamesLength(_)
NamesLength(k) ==
    IF k = 0 THEN 0
    ELSE NamesLength(k - 1) + IF needs_name(tokens[k]) THEN name_entry(tokens[k]).len ELSE 0

(* C14: whatever tokens, names and errors the previous output holds, the   *)
(* call is, once prepare_output has run, in the state it is in with an     *)
(* empty previous output, so it returns the same output: the tokens are    *)
(* the ones committed in this call, the errors the one this call raised,   *)
(* the name buffer the bytes this call's name buffer pass appended.        *)
C14_PreviousOutputIgnored ==
    /\ (pc = "seek" /\ spans = << >>) =>
          /\ tokens = << >> /\ names = << >> /\ errors = << >>
          /\ offset = 0 /\ ni = 1
    /\ Started =>
          /\ Len(tokens) = Len(spans)
          /\ Len(errors) <= 1
          /\ pc \in {"seek", "match"} => names = << >> /\ errors = << >>
          /\ pc \in {"names", "done"} => Len(names) = NamesLength(ni - 1)

(* C14 witness: a call returned a String token, its text in the name       *)
(* buffer and an error, none of them the previous output's.                *)
C14_Witness ==
    /\ pc = "done"
    /\ tokens # << >> /\ IsString(tokens[1])
    /\ names # << >> /\ names[1] # c_a
    /\ errors # << >> /\ errors[1].messages[2] # << c_at >>

(* The newlines before offset o, and the offset at which the line of o     *)
(* begins.                                                                 *)
NewlinesBefore(o) == Cardinality({ i \in 0..(o - 1) : At(i) = c_nl })
LineBegin(o) ==
    LET nls == { i \in 0..(o - 1) : At(i) = c_nl }
    IN  IF nls = {} THEN 0 ELSE 1 + CHOOSE i \in nls : \A j \in nls : j <= i

(* C15: every committed token carries debug data taken from the line       *)
(* index: the line that holds its first byte (counted from 0 or from 1),   *)
(* the column of its first byte and the column of its end (its last byte   *)
(* or the byte after it), both on that line.                               *)
C15_TokensCarryDebugData ==
    JustCommitted =>
        LET o == LastSpan.start
            e == o + LastSpan.length
            debug == LastToken.debug
        IN  /\ debug.line \in {NewlinesBefore(o), NewlinesBefore(o) + 1}
            /\ debug.column_start = o - LineBegin(o)
            /\ debug.column_end \in {e - 1 - LineBegin(o), e - LineBegin(o)}
            /\ LineBegin(e - 1) = LineBegin(o)

(* C16: when the cursor is at a block comment opener that no closer         *)
(* follows before the end of input, also when the source ends with '*',    *)
(* seek stops exactly at the terminator and returns the end sentinel; a    *)
(* source that is such a comment returns no token and no error.            *)
C16_UnterminatedCommentStopsAtEnd ==
    /\ (pc = "seek" /\ offset + 1 < Len(data)
                    /\ At(offset) = c_slash /\ At(offset + 1) = c_star
                    /\ Closers(offset + 2) = {}) =>
          /\ seek(offset).offset = Len(data)
          /\ seek(offset).ret = c_nul
    /\ (pc = "done" /\ Len(data) >= 2 /\ At(0) = c_slash /\ At(1) = c_star
                    /\ Closers(2) = {}) =>
          /\ offset = Len(data)
          /\ tokens = << >>
          /\ errors = << >>

(* C17: decimal digits directly followed by the float suffix, f or F, and  *)
(* then by the end of input or whitespace are committed as one Float       *)
(* literal over digits and suffix, with the value of the digits.           *)
(* Decimal digits at the cursor, directly followed by ch and then by the   *)
(* end of input or whitespace.                                             *)
DigitsThen(ch) ==
    /\ is_digit(At(offset))
    /\ At(DigitRunEnd(offset, 10)) = ch
    /\ At(DigitRunEnd(offset, 10) + 1) \in WhitespaceBytes \cup {c_nul}

C17_FloatSuffixEitherCase ==
    (pc = "match" /\ is_digit(At(offset))
                  /\ At(DigitRunEnd(offset, 10)) \in {c_f, c_upF}
                  /\ At(DigitRunEnd(offset, 10) + 1) \in WhitespaceBytes \cup {c_nul}) =>
        /\ gather_matches(offset) # << >>
        /\ selected_match(offset).token.type = "Literal"
        /\ selected_match(offset).token.literal = "Float"
        /\ selected_match(offset).length = DigitRunEnd(offset, 10) + 1 - offset
        /\ selected_match(offset).token.literal_data.flt
              = normal_decimal(FALSE, digit_run(offset, 10, 0).value, 0)

(* C17 amended: decimal digits directly followed by a lowercase f and then *)
(* by the end of input or whitespace are committed as one Float literal    *)
(* over digits and suffix, with the value of the digits; followed by an    *)
(* uppercase F instead, no recogniser matches at the digits.               *)
C17_FloatSuffixLowerCase ==
    /\ (pc = "match" /\ DigitsThen(c_f)) =>
          /\ gather_matches(offset) # << >>
          /\ selected_match(offset).token.type = "Literal"
          /\ selected_match(offset).token.literal = "Float"
          /\ selected_match(offset).length = DigitRunEnd(offset, 10) + 1 - offset
          /\ selected_match(offset).token.literal_data.flt
                = normal_decimal(FALSE, digit_run(offset, 10, 0).value, 0)
    /\ (pc = "match" /\ DigitsThen(c_upF)) => gather_matches(offset) = << >>
    /\ (Started /\ pc # "match") =>
          \A k \in 1..Len(spans) :
             (is_digit(At(spans[k].start))
                 /\ At(DigitRunEnd(spans[k].start, 10)) \in {c_f, c_upF}) =>
                /\ At(DigitRunEnd(spans[k].start, 10)) = c_f
                /\ spans[k].length >= DigitRunEnd(spans[k].start, 10) + 1 - spans[k].start
                /\ tokens[k].literal = "Float"

(* C17 witness: 10000f was committed as one Float literal of value 1e4.    *)
C17_Witness ==
    /\ JustCommitted
    /\ Bytes(LastSpan.start, LastSpan.length) = <<c_1, c_0, c_0, c_0, c_0, c_f>>
    /\ LastToken.type = "Literal"
    /\ LastToken.literal = "Float"
    /\ LastToken.literal_data.flt = [neg |-> FALSE, mant |-> 1, exp |-> 4]

(* The offset of the first newline at or after o, or the end of the source *)
(* (o itself when o lies after the end).                                   *)
LineStop(o) ==
    LET stops == { i \in o..Len(data) : At(i) = c_nl \/ i = Len(data) }
    IN  IF stops = {} THEN o ELSE CHOOSE i \in stops : \A j \in stops : i <= j

(* The ranges of the line index that hold offset o between their ends.     *)
RangesHolding(o) ==
    { j \in 1..Len(make_debug_ranges) :
         /\ make_debug_ranges[j].index_start <= o
         /\ o <= make_debug_ranges[j].index_end }

(* C18: the error the lexer appends carries the label and, as excerpt, the *)
(* first min(127, n) bytes of the source line that holds the failing       *)
(* offset, n being the length of the line without its newline; that line   *)
(* is the one range of the line index with start <= offset <= end.         *)
C18_ErrorCarriesLine ==
    (Started /\ errors # << >>) =>
        /\ errors[1].code = "Unknown"
        /\ errors[1].messages[1] = "Unknown Token"
        /\ Cardinality(RangesHolding(offset)) = 1
        /\ \A j \in RangesHolding(offset) :
              /\ make_debug_ranges[j].index_start = LineBegin(offset)
              /\ make_debug_ranges[j].index_end = LineStop(offset)
        /\ errors[1].messages[2]
              = Bytes(LineBegin(offset),
                      Min(LineBuffSize - 1, LineStop(offset) - LineBegin(offset)))

(* C19: each pass of seek's loop that does not return and each committed   *)
(* match move the cursor forward by at least one byte, the cursor never    *)
(* leaves the source and its terminator, the main loop ends at the end of  *)
(* input or at the first error, and the name buffer pass then visits each  *)
(* committed token once.                                                   *)
C19_LexerTerminates ==
    /\ pc = "seek" =>
          \A p \in 0..Len(data) : ~seek_pass(p).returns => seek_pass(p).offset > p
    /\ (pc = "match" /\ gather_matches(offset) # << >>) =>
          selected_match(offset).length >= 1
    /\ offset <= Len(data)
    /\ pc \in {"names", "done"} => (errors # << >> \/ offset = Len(data))
    /\ pc \in {"names", "done"} => ni <= Len(tokens) + 1
    /\ pc = "done" => ni = Len(tokens) + 1

(* C20: for every numeric literal that tokenize_literal accepts at the     *)
(* cursor, the bytes strtod or strtol consumed from the cursor, plus one   *)
(* when the float specifier was seen, equal the scanned length: the        *)
(* assertion parsed_distance == distance holds.                            *)
C20_ParsedDistanceAgrees ==
    (pc = "match" /\ read(offset) # c_quote /\ tokenize_literal(offset).ok) =>
        LET is_hex == literal_scan(offset).is_hex
            st == literal_scan(offset).scan.st
        IN  literal_parsed(offset, is_hex, st).parsed_distance = st.distance

(* C21: with the cursor at a block comment opener that a closer follows,   *)
(* the pass of seek ends the comment at the first "*/" whose '*' comes     *)
(* after the two bytes of the opener, and leaves the cursor on the byte    *)
(* after that closer, whatever lies between, "//" and lone '/' included.   *)
C21_CommentClosesAtStarSlash ==
    (pc = "seek" /\ offset + 1 < Len(data)
                 /\ At(offset) = c_slash /\ At(offset + 1) = c_star
                 /\ Closers(offset + 2) # {}) =>
        LET closer == CHOOSE j \in Closers(offset + 2) :
                         \A k \in Closers(offset + 2) : j <= k
        IN  /\ ~seek_pass(offset).returns
            /\ seek_pass(offset).offset = closer + 2

(* C22: at every moment of a call the source spans [start, start + length) *)
(* of the committed tokens are non-empty, follow one another in the order  *)
(* of the token list without overlap, and lie within [0, source length).   *)
C22_SpansOrderedWithinSource ==
    Started =>
        /\ Len(spans) = Len(tokens)
        /\ \A k \in 1..Len(spans) :
              /\ spans[k].length >= 1
              /\ 0 <= spans[k].start
              /\ spans[k].start + spans[k].length <= Len(data)
        /\ \A k \in 1..(Len(spans) - 1) :
              spans[k].start + spans[k].length <= spans[k + 1].start

(* Whether only blanks other than the newline lie between the start of the *)
(* line of o and o.                                                        *)
FirstOnLine(o) ==
    \A i \in LineBegin(o)..(o - 1) : At(i) \in WhitespaceBytes \ {c_nl}

(* Whether a '#' follows a committed token on the token's own line, with   *)
(* nothing but blanks between the end of the token and the '#'.            *)
HashAfterToken ==
    \E k \in 1..Len(spans) :
        LET end == spans[k].start + spans[k].length
        IN  \E h \in end..(Len(data) - 1) :
                /\ At(h) = c_hash
                /\ \A i \in end..(h - 1) : At(i) \in WhitespaceBytes \ {c_nl}

(* C23: a pass of seek that starts at a '#' which is the first byte of its *)
(* line other than blanks skips to the end of that line; a '#' that        *)
(* follows a token on the same line is not skipped, and the call reports   *)
(* an unknown token error for it.                                          *)
C23_DirectiveOnlyAtLineStart ==
    /\ pc = "seek" =>
          \A p \in 0..(Len(data) - 1) :
              (At(p) = c_hash /\ FirstOnLine(p)) =>
                  /\ ~seek_pass(p).returns
                  /\ seek_pass(p).offset = LineStop(p)
    /\ (pc = "done" /\ HashAfterToken) => errors # << >>

(***************************************************************************)
(* The bytes each step reads: the highest index of input.base it looks at. *)
(***************************************************************************)
(* skip_until(p, terms) reads from p up to the byte that stops it.         *)
skip_until_reads(p, terms) == p + skip_until(p, terms)

(* The block comment loop of seek entered at o.                            *)
RECURSIVE block_comment_reads(_)
block_comment_reads(o) ==
    IF read(o) = c_nul THEN o
    ELSE LET o2 == o + Max(1, skip_until(o, {c_slash}))
         IN  IF peek(o2, -1) = c_star THEN skip_until_reads(o, {c_slash})
             ELSE Max(skip_until_reads(o, {c_slash}), block_comment_reads(o2))

(* One pass of seek's while loop at o.                                     *)
seek_pass_reads(o) ==
    IF read(o) = c_hash THEN skip_until_reads(o, {c_nl})
    ELSE IF read(o) # c_slash THEN o
    ELSE IF peek(o, 1) = c_slash THEN Max(o + 1, skip_until_reads(o, {c_nl}))
    ELSE IF peek(o, 1) = c_star THEN Max(o + 1, block_comment_reads(o))
    ELSE o + 1

(* The passes of seek from o until it returns.                             *)
RECURSIVE seek_reads(_)
seek_reads(o) ==
    IF seek_pass(o).returns THEN seek_pass_reads(o)
    ELSE Max(seek_pass_reads(o), seek_reads(seek_pass(o).offset))

(* The switch of tokenize_keyword: read, peek(input), peek(input, 3).      *)
keyword_switch_reads(o) ==
    IF read(o) \in {c_c, c_d, c_e, c_f, c_i, c_v} THEN o + 1
    ELSE IF read(o) # c_s THEN o
    ELSE IF peek(o, 1) = c_t THEN o + 3
    ELSE o + 1

(* strncmp against a spelling s stops at the first byte that differs.      *)
RECURSIVE strncmp_reads(_, _, _)
strncmp_reads(o, s, k) ==
    IF k >= Len(s) \/ At(o + k - 1) # s[k] THEN o + k - 1
    ELSE strncmp_reads(o, s, k + 1)

tokenize_keyword_reads(o) ==
    IF keyword_switch(o) = "none" THEN keyword_switch_reads(o)
    ELSE Max(keyword_switch_reads(o),
             strncmp_reads(o, keywords[Keyword[keyword_switch(o)] + 1].first, 1))

(* The while loop of tokenize_identifier reads up to the byte it stops at. *)
tokenize_identifier_reads(o) ==
    IF ~is_letter(At(o)) /\ At(o) # c_underscore THEN o ELSE identifier_scan(o)

(* The switch of tokenize_punctuator: read, peek(input), peek(input, 2).   *)
tokenize_punctuator_reads(o) ==
    IF read(o) \in {c_dot, c_greater, c_less} /\ peek(o, 1) = read(o) THEN o + 2
    ELSE IF read(o) \in {c_amp, c_star, c_caret, c_colon, c_dot, c_equal,
                         c_excl, c_greater, c_plus, c_slash, c_less,
                         c_minus, c_percent, c_pipe} THEN o + 1
    ELSE o

(* The string scan of tokenize_literal from temp_input.offset = t.         *)
RECURSIVE string_scan_reads(_)
string_scan_reads(t) ==
    IF read(t) = c_nul THEN t
    ELSE LET t2 == t + skip_until(t, {c_quote, c_nl})
         IN  IF read(t2) # c_nl /\ peek(t2, -1) = c_backslash
             THEN string_scan_reads(t2 + 1)
             ELSE t2

(* The numeric scan: up to the byte that stops it, and what the test of    *)
(* that byte reads when it is not the terminator.                          *)
number_scan_reads(o, st) ==
    IF peek(o, st.distance) = c_nul THEN o + st.distance
    ELSE tokenize_punctuator_reads(o + st.distance)

(* strtod and strtol read the text they take and the byte that ends it.    *)
literal_parsed_reads(o, is_hex, st) ==
    IF st.seen_decimal \/ st.seen_exponent \/ st.seen_float_specifier
    THEN o + strtod(o).consumed
    ELSE o + strtol(o, literal_base(is_hex)).consumed

numeric_match_reads(o, is_hex, scan) ==
    IF scan.rejected \/ ~scan.st.seen_number THEN number_scan_reads(o, scan.st)
    ELSE Max(number_scan_reads(o, scan.st), literal_parsed_reads(o, is_hex, scan.st))

tokenize_literal_reads(o) ==
    IF read(o) = c_quote THEN string_scan_reads(o + 1)
    ELSE IF is_digit(read(o)) \/ read(o) \in {c_dot, c_plus, c_minus}
    THEN numeric_match_reads(o, literal_scan(o).is_hex, literal_scan(o).scan)
    ELSE o

(* The error path: make_debug_ranges reads up to the terminator, memcpy    *)
(* reads the bytes of the excerpt.                                         *)
make_debug_ranges_reads == make_debug_ranges[Len(make_debug_ranges)].index_end

line_buff_reads(range) ==
    range.index_start
      + Min(LineBuffSize - 1, range.index_end - range.index_start) - 1

(* The memcpy of the name buffer pass for tokens[ni].                      *)
name_entry_reads(token) == name_entry(token).idx + name_entry(token).len - 1

(* C24: the cursor never stands past the terminator, and every byte that   *)
(* seek, the four recognisers, the error path and the name buffer pass     *)
(* read lies at an index from 0 to the length of the source, the index of  *)
(* the terminator.                                                         *)
C24_NoReadPastTerminator ==
    /\ offset <= Len(data)
    /\ pc = "seek" => seek_reads(offset) <= Len(data)
    /\ pc = "match" =>
          /\ tokenize_keyword_reads(offset) <= Len(data)
          /\ tokenize_identifier_reads(offset) <= Len(data)
          /\ tokenize_literal_reads(offset) <= Len(data)
          /\ tokenize_punctuator_reads(offset) <= Len(data)
          /\ gather_matches(offset) = << >> =>
                /\ make_debug_ranges_reads <= Len(data)
                /\ \A range \in find_debug_range(make_debug_ranges, offset) :
                      line_buff_reads(range) <= Len(data)
    /\ (pc = "names" /\ ni <= Len(tokens) /\ needs_name(tokens[ni])) =>
          name_entry_reads(tokens[ni]) <= Len(data)

====
